---- MODULE Spec2Model ----
(***************************************************************************)
(* Marinelli & Niccoli (2000) pit-inflow model, src/marinelli.py.          *)
(*                                                                         *)
(* Numbers.  Python floats are modelled in fixed point:                    *)
(*   - lengths (drawdowns, radii) given by the caller are whole metres;    *)
(*   - values computed through np.sqrt are in 1/ValueScale metres, so a    *)
(*     returned drawdown d stands for d / ValueScale metres;               *)
(*   - np.log is the table LnMilli (ln(n) in 1/1000);                      *)
(*   - np.pi is PiMilli / 1000;                                            *)
(*   - NaN is the value np.sqrt gives for a negative argument; every       *)
(*     comparison with it is false, every arithmetic result is NaN.        *)
(* scipy.optimize.fsolve is a library: it is modelled by what it hands     *)
(* back, see Fsolve below.                                                 *)
(***************************************************************************)
EXTENDS Integers, Sequences, FiniteSets, TLC

(* ------------------------------ bounds --------------------------------- *)
\* largest radius (m, from the pit centre) on the solver's grid
MaxR == 6
\* attribute writes on one object
MaxWrites == 2
\* largest `end` handed to get_nice_intervals
MaxEnd == 1200
\* resolution of computed values: 1/ValueScale metres
ValueScale == 10

(* --------------------------- numeric helpers --------------------------- *)
NaN == -1000000

PiMilli == 3142

\* np.log: ln(n) * 1000, rounded, for n = 1..12
LnMilli == <<0, 693, 1099, 1386, 1609, 1792, 1946, 2079, 2197, 2303, 2398, 2485>>

Abs(x) == IF x < 0 THEN -x ELSE x

RECURSIVE IsqrtFrom(_, _)
IsqrtFrom(n, x) ==
    LET y == (x + (n \div x)) \div 2
    IN  IF y >= x THEN x ELSE IsqrtFrom(n, y)

\* np.sqrt on a fixed-point argument: NaN below zero, else the integer root
NpSqrt(n) ==
    IF n = NaN \/ n < 0 THEN NaN
    ELSE IF n = 0 THEN 0
    ELSE IsqrtFrom(n, n)

\* float subtraction with NaN propagation
FSub(a, b) == IF a = NaN \/ b = NaN THEN NaN ELSE a - b

\* float comparisons: false when either side is NaN
FLt(a, b) == a # NaN /\ b # NaN /\ a < b
FGe(a, b) == a # NaN /\ b # NaN /\ a >= b

\* floor(n / d) for d # 0
FloorDiv(n, d) == IF d > 0 THEN n \div d ELSE (-n) \div (-d)

(* ------------------------------- state --------------------------------- *)
VARIABLES
    alive,      \* TRUE once a constructor has returned an object
    self,       \* the object's parameter attributes (by name)
    dict,       \* names present in the instance __dict__: attributes set by
                \* __init__ or by a later write, and cached_property results
    cache,      \* the cached_property values stored in the instance __dict__
    last,       \* the last call: [op, arg, kw]
    exc,        \* the exception the last call raised, or "none"
    ret,        \* the value the last call returned (0 when it raised)
    warned,     \* the last call made fsolve emit its non-convergence warning
    solves,     \* how many times fsolve ran to its end for radius_infl
    writes,     \* attribute writes so far
    nice_end,   \* get_nice_intervals: the last `end`
    nice_pts    \* get_nice_intervals: the points returned, in quarter units

vars == <<alive, self, dict, cache, last, exc, ret, warned, solves, writes,
          nice_end, nice_pts>>

objvars == <<alive, self, dict, cache, last, exc, ret, warned, solves, writes>>

(* ----------------------- names and input domains ----------------------- *)
\* parameters of PitFlow.__init__, and those without a default
PitFlowParams ==
    {"drawdown_stab", "area", "recharge", "precipitation", "cond_h", "anisotropy",
     "drawdown_edge", "depth_pitlake", "period_snow_accumulation", "period_melting"}
PitFlowRequired == {"drawdown_stab", "area", "recharge", "precipitation", "cond_h"}

\* parameters of PitFlowCommonUnits.__init__, and those without a default
CommonUnitsParams ==
    {"cond_h_md", "recharge_mm_yr", "area", "drawdown_stab", "anisotropy",
     "drawdown_edge", "depth_pitlake"}
CommonUnitsRequired == {"cond_h_md", "recharge_mm_yr", "area", "drawdown_stab"}

\* the keywords PitFlowCommonUnits.__init__ passes to super().__init__
SuperCallKw ==
    {"drawdown_stab", "cond_h", "radius_eff", "recharge", "anisotropy",
     "drawdown_edge", "depth_pitlake"}

\* The calls PitFlow(**kw) callers make, each the keyword arguments it passes.
\* Testpit and TestpitAnisotropic are the calls of the test module, in model
\* units; the others pass what __init__ declares.
Testpit ==
    [drawdown_stab |-> 2, cond_h |-> 1, radius_eff |-> 2, recharge |-> 1]
TestpitAnisotropic ==
    [drawdown_stab |-> 2, cond_h |-> 1, radius_eff |-> 2, recharge |-> 1,
     anisotropy |-> 4]
Declared(ds, rch, ch) ==
    [drawdown_stab |-> ds, area |-> 13, recharge |-> rch, precipitation |-> 1,
     cond_h |-> ch]
PitFlowCalls ==
    {Testpit,
     TestpitAnisotropic,
     Declared(2, 1, 1),
     Declared(1, 1, 1),
     Declared(2, 0, 1),
     Declared(2, -1, 1),
     Declared(2, 1, 0),
     [drawdown_stab |-> 2, area |-> 13, recharge |-> 1, precipitation |-> 1,
      cond_h |-> 1, drawdown_edge |-> 1],
     [drawdown_stab |-> 1, area |-> 13, recharge |-> 1, precipitation |-> 1,
      cond_h |-> 1, drawdown_edge |-> 2],
     [drawdown_stab |-> 2, area |-> 13, recharge |-> 1, precipitation |-> 1,
      cond_h |-> 1, anisotropy |-> 4, depth_pitlake |-> 1],
     [drawdown_stab |-> 2, area |-> 13, recharge |-> 1, precipitation |-> 1,
      cond_h |-> 1, anisotropy |-> 0]}

\* The calls PitFlowCommonUnits(**kw) callers make; the first is the test
\* module's testpit_commonunits.
CommonUnitsCalls ==
    {[drawdown_stab |-> 6, cond_h_md |-> 20, area |-> 4000, recharge_mm_yr |-> 76],
     [drawdown_stab |-> 6, cond_h_md |-> 20, area |-> 4000, recharge_mm_yr |-> 76,
      anisotropy |-> 1, drawdown_edge |-> 1, depth_pitlake |-> 1],
     [drawdown_stab |-> 6, cond_h_md |-> 0, area |-> 4000, recharge_mm_yr |-> 76]}

\* a Python call binds iff every keyword is a parameter and no required one is missing
Binds(params, required, kw) == kw \subseteq params /\ required \subseteq kw

DrawdownStabValues == {1, 2}
DrawdownEdgeValues == {0, 1}
DepthValues == {0, 1}
RechargeValues == {-1, 0, 1}
CondHValues == {0, 1}
AnisotropyValues == {0, 1, 4}
RadiusEffValues == {2, 4}

\* the attributes a caller writes after construction, with the values written
Writable(name) ==
    CASE name = "radius_eff" -> RadiusEffValues
      [] name = "recharge" -> RechargeValues
      [] name = "cond_h" -> CondHValues
      [] name = "drawdown_stab" -> DrawdownStabValues
      [] name = "drawdown_edge" -> DrawdownEdgeValues
      [] name = "anisotropy" -> AnisotropyValues
      [] name = "depth_pitlake" -> DepthValues
WritableNames ==
    {"radius_eff", "recharge", "cond_h", "drawdown_stab", "drawdown_edge",
     "anisotropy", "depth_pitlake"}

\* what __init__ stores (the attributes the modelled queries read)
CtorAttrs ==
    {"drawdown_stab", "drawdown_edge", "depth_pitlake", "recharge", "cond_h",
     "anisotropy"}

CachedNames ==
    {"radius_infl", "radius_infl_from_edge", "radius_at_1m", "inflow_zone1",
     "inflow_zone2", "inflow_zones_both"}

\* radii from the pit centre the solver works on, and distances from the wall
Radii == 1..MaxR
WallDistances == (-1)..MaxR

\* the thresholds callers pass to get_r_at_drawdown
ThresholdValues == {0, 1, 2}

NoCall == [op |-> "none", arg |-> 0, kw |-> <<>>]

(* ----------------------- the governing equation ------------------------ *)
\* 2000 * radius_term: rinfl^2 * ln(radius / radius_eff) - (radius^2 - radius_eff^2) / 2
RadiusTerm2000(radius, rinfl, re) ==
    2 * rinfl * rinfl * (LnMilli[radius] - LnMilli[re])
        - 1000 * (radius * radius - re * re)

\* np.sqrt(drawdown_edge**2 + (recharge / cond_h) * radius_term), in 1/ValueScale m;
\* cond_h # 0 (the division raises before this is reached otherwise)
SqrtTerm(rt2000) ==
    NpSqrt(ValueScale * ValueScale * self.drawdown_edge * self.drawdown_edge
           + FloorDiv(ValueScale * ValueScale * self.recharge * rt2000,
                      2000 * self.cond_h))

\* _get_marinelli_niccoli_h_0(radius_infl), in 1/ValueScale m
MarinelliNiccoliH0(R) ==
    FSub(ValueScale * self.drawdown_stab,
         SqrtTerm(RadiusTerm2000(R, R, self.radius_eff)))

(* ------------------------ scipy.optimize.fsolve ------------------------ *)
\* A converged fsolve hands back a zero of func. On func's grid that is the
\* grid point x with a zero of func in [x, x + 1): func is 0 at x, or changes sign
\* between x and x + 1.
IsApproxRoot(func, x) ==
    /\ func[x] # NaN
    /\ \/ func[x] = 0
       \/ /\ x + 1 \in DOMAIN func
          /\ func[x + 1] # NaN
          /\ \/ func[x] < 0 /\ func[x + 1] > 0
             \/ func[x] > 0 /\ func[x + 1] < 0

FsolveRoots(func) == {x \in DOMAIN func : IsApproxRoot(func, x)}

\* fsolve(func, x0)[0]: a zero of func when it has one on the grid (which one
\* depends on where x0 lies among them, and is left open); otherwise the last
\* iterate, whichever grid point that is, with a RuntimeWarning and no exception.
\* The record says which:
\* [x, converged, raised]; raised is for a func that raised instead.
Fsolve(func) ==
    LET roots == FsolveRoots(func)
    IN  IF roots # {}
        THEN {[x |-> r, converged |-> TRUE, raised |-> FALSE] : r \in roots}
        ELSE {[x |-> r, converged |-> FALSE, raised |-> FALSE] : r \in DOMAIN func}

\* _get_marinelli_niccoli_h_0 as fsolve sees it, over the radii of the grid
H0OnGrid == [R \in Radii |-> MarinelliNiccoliH0(R)]

(* --------------------- property and method bodies ---------------------- *)
\* The queries call one another; each body maps the machine state m =
\* [dict, cache, exc, ret, warned, solves] at its entry to the one at its exit.
\* s and t are what fsolve hands back to the calls that reach it.
Enter == [dict |-> dict, cache |-> cache, exc |-> "none", ret |-> 0,
          warned |-> FALSE, solves |-> solves]

Raise(m, e) == [m EXCEPT !.exc = e, !.ret = 0]
Return(m, v) == [m EXCEPT !.ret = v]
Store(m, name, v) ==
    [m EXCEPT !.dict = @ \cup {name}, !.cache[name] = v, !.ret = v]

\* what the first evaluation of _get_marinelli_niccoli_h_0 raises, if anything
H0Raises(m) ==
    IF "radius_eff" \notin m.dict THEN "AttributeError"
    ELSE IF self.radius_eff = 0 \/ self.cond_h = 0 THEN "ZeroDivisionError"
    ELSE "none"

\* the outcomes of the fsolve call of radius_infl
RadiusInflSolves(m) ==
    IF "radius_infl" \in m.dict \/ H0Raises(m) # "none" THEN {[x |-> 0, converged |-> TRUE, raised |-> TRUE]}
    ELSE Fsolve(H0OnGrid)

\* radius_infl as a plain property, which solves on every read (the variant
\* C8_SolveOnce must tell apart from the cached property)
RadiusInflUncached(m, s) ==
    IF H0Raises(m) # "none" THEN Raise(m, H0Raises(m))
    ELSE [Store(m, "radius_infl", s.x) EXCEPT
              !.warned = @ \/ ~s.converged, !.solves = @ + 1]

\* @cached_property radius_infl
RadiusInfl(m, s) ==
    IF "radius_infl" \in m.dict THEN Return(m, m.cache["radius_infl"])
    ELSE IF H0Raises(m) # "none" THEN Raise(m, H0Raises(m))
    ELSE [Store(m, "radius_infl", s.x) EXCEPT
              !.warned = @ \/ ~s.converged, !.solves = @ + 1]

\* @cached_property radius_infl_from_edge
RadiusInflFromEdge(m, s) ==
    IF "radius_infl_from_edge" \in m.dict
    THEN Return(m, m.cache["radius_infl_from_edge"])
    ELSE LET m1 == RadiusInfl(m, s)
         IN  IF m1.exc # "none" THEN m1
             ELSE IF "radius_eff" \notin m1.dict THEN Raise(m1, "AttributeError")
             ELSE Store(m1, "radius_infl_from_edge", m1.ret - self.radius_eff)

\* get_drawdown_at_r with the wall itself counted as inside the pit, r <= 0 (the
\* variant C4_BoundaryStrict must tell apart from the code's r < 0)
GetDrawdownAtRInclusive(m, r, s) ==
    IF r <= 0 THEN Return(m, ValueScale * self.drawdown_stab)
    ELSE LET m1 == RadiusInflFromEdge(m, s)
         IN  IF m1.exc # "none" THEN m1
             ELSE IF r > m1.ret THEN Return(m1, 0)
             ELSE IF "radius_eff" \notin m1.dict THEN Raise(m1, "AttributeError")
             ELSE LET m2 == RadiusInfl(m1, s)
                  IN  IF m2.exc # "none" THEN m2
                      ELSE IF self.radius_eff = 0 \/ self.cond_h = 0
                      THEN Raise(m2, "ZeroDivisionError")
                      ELSE Return(m2,
                               FSub(ValueScale * self.drawdown_stab,
                                    SqrtTerm(RadiusTerm2000(r + self.radius_eff,
                                                            m2.ret,
                                                            self.radius_eff))))

\* get_drawdown_at_r(radius_from_wall), in 1/ValueScale m
GetDrawdownAtR(m, r, s) ==
    IF r < 0 THEN Return(m, ValueScale * self.drawdown_stab)
    ELSE LET m1 == RadiusInflFromEdge(m, s)
         IN  IF m1.exc # "none" THEN m1
             ELSE IF r > m1.ret THEN Return(m1, 0)
             ELSE IF "radius_eff" \notin m1.dict THEN Raise(m1, "AttributeError")
             ELSE LET m2 == RadiusInfl(m1, s)
                  IN  IF m2.exc # "none" THEN m2
                      ELSE IF self.radius_eff = 0 \/ self.cond_h = 0
                      THEN Raise(m2, "ZeroDivisionError")
                      ELSE Return(m2,
                               FSub(ValueScale * self.drawdown_stab,
                                    SqrtTerm(RadiusTerm2000(r + self.radius_eff,
                                                            m2.ret,
                                                            self.radius_eff))))

\* _balance_drawdown_threshold([r], threshold) once the first evaluation has
\* solved and cached the radius of influence
BalanceDrawdownThreshold(m, r, threshold) ==
    FSub(GetDrawdownAtR(m, r, [x |-> 0, converged |-> TRUE, raised |-> FALSE]).ret,
         ValueScale * threshold)

\* the trial points at which get_drawdown_at_r divides by zero
TrialRaises(m, r) ==
    /\ r >= 0
    /\ r <= m.cache["radius_infl_from_edge"]
    /\ (self.radius_eff = 0 \/ self.cond_h = 0)

\* the outcomes of the fsolve call of get_r_at_drawdown, m being the state after
\* the first evaluation, at x0
ThresholdSolves(m, threshold) ==
    IF m.exc # "none" THEN {[x |-> 0, converged |-> TRUE, raised |-> TRUE]}
    ELSE LET bad == {r \in WallDistances : TrialRaises(m, r)}
             func == [r \in WallDistances \ bad |->
                         BalanceDrawdownThreshold(m, r, threshold)]
         IN  IF bad = {} THEN Fsolve(func)
             ELSE {[x |-> 0, converged |-> FALSE, raised |-> TRUE]}
                      \cup Fsolve(func)

\* get_r_at_drawdown's default x0
RAtDrawdownX0 == 10

\* get_r_at_drawdown(drawdown): fsolve on _balance_drawdown_threshold from x0
GetRAtDrawdown(m, drawdown, s, t) ==
    LET m1 == GetDrawdownAtR(m, RAtDrawdownX0, s)
    IN  IF m1.exc # "none" THEN m1
        ELSE IF t.raised THEN Raise(m1, "ZeroDivisionError")
        ELSE [Return(m1, t.x) EXCEPT !.warned = @ \/ ~t.converged]

\* @cached_property radius_at_1m
RadiusAt1m(m, s, t) ==
    IF "radius_at_1m" \in m.dict THEN Return(m, m.cache["radius_at_1m"])
    ELSE LET m1 == GetRAtDrawdown(m, 1, s, t)
         IN  IF m1.exc # "none" THEN m1 ELSE Store(m1, "radius_at_1m", m1.ret)

\* recharge * pi * (radius_infl**2 - radius_eff**2), in 1/1000 m^3/s
InflowZone1Value(rinfl) ==
    self.recharge * PiMilli * (rinfl * rinfl - self.radius_eff * self.radius_eff)

\* @cached_property inflow_zone1
InflowZone1(m, s) ==
    IF "inflow_zone1" \in m.dict THEN Return(m, m.cache["inflow_zone1"])
    ELSE LET m1 == RadiusInfl(m, s)
         IN  IF m1.exc # "none" THEN m1
             ELSE IF "radius_eff" \notin m1.dict THEN Raise(m1, "AttributeError")
             ELSE Store(m1, "inflow_zone1", InflowZone1Value(m1.ret))

\* 4 * radius_eff * (cond_h / sqrt(cond_h / (cond_h * anisotropy)))
\*   * (drawdown_stab - depth_pitlake), in 1/1000 m^3/s; cond_h * anisotropy # 0
InflowZone2Value ==
    LET root == NpSqrt(ValueScale * ValueScale * self.anisotropy)
    IN  IF root = NaN THEN NaN
        ELSE (4000 * self.radius_eff * self.cond_h * root
                  * (self.drawdown_stab - self.depth_pitlake)) \div ValueScale

\* @cached_property inflow_zone2
InflowZone2(m) ==
    IF "inflow_zone2" \in m.dict THEN Return(m, m.cache["inflow_zone2"])
    ELSE IF self.cond_h * self.anisotropy = 0 THEN Raise(m, "ZeroDivisionError")
    ELSE IF "radius_eff" \notin m.dict THEN Raise(m, "AttributeError")
    ELSE Store(m, "inflow_zone2", InflowZone2Value)

\* @cached_property inflow_zones_both
InflowZonesBoth(m, s) ==
    IF "inflow_zones_both" \in m.dict THEN Return(m, m.cache["inflow_zones_both"])
    ELSE LET m1 == InflowZone1(m, s)
         IN  IF m1.exc # "none" THEN m1
             ELSE LET m2 == InflowZone2(m1)
                  IN  IF m2.exc # "none" THEN m2
                      ELSE Store(m2, "inflow_zones_both",
                                 IF m2.ret = NaN THEN NaN ELSE m1.ret + m2.ret)

\* report(): reads every attribute named in _inputs_info and _outputs_info, in
\* that order (radius_eff is the first output), then tabulates the drawdown at
\* get_nice_intervals(radius_infl_from_edge). For a radius_infl_from_edge <= 0,
\* get_nice_intervals takes neither branch on the NaN digit and fails on its
\* unassigned `max`; the first point it returns otherwise lies within the radius
\* of influence, where get_drawdown_at_r divides by radius_eff and cond_h. The
\* precipitation and meltwater inflows read constructor arguments only and
\* cannot fail.
Report(m, s, t) ==
    IF "radius_eff" \notin m.dict THEN Raise(m, "AttributeError")
    ELSE LET m1 == RadiusInflFromEdge(m, s)
         IN  IF m1.exc # "none" THEN m1
    ELSE LET m2 == RadiusAt1m(m1, s, t)
         IN  IF m2.exc # "none" THEN m2
    ELSE LET m3 == InflowZonesBoth(m2, s)
         IN  IF m3.exc # "none" THEN m3
    ELSE IF m3.cache["radius_infl_from_edge"] <= 0 THEN Raise(m3, "UnboundLocalError")
    ELSE IF self.radius_eff = 0 \/ self.cond_h = 0 THEN Raise(m3, "ZeroDivisionError")
    ELSE Return(m3, 0)

(* -------------------------- get_nice_intervals ------------------------- *)
NumBoundsLo == 4
NumBoundsHi == 8

RECURSIVE Mag(_)
\* np.floor(np.log10(end)) for a whole end >= 1
Mag(end) == IF end < 10 THEN 0 ELSE 1 + Mag(end \div 10)

RECURSIVE Pow10(_)
Pow10(k) == IF k = 0 THEN 1 ELSE 10 * Pow10(k - 1)

\* get_nice_intervals(end) for end >= 10 (so that 10 ** (mag - 1) is a whole
\* number); `max` and the points are in quarter metres
GetNiceIntervals(end) ==
    LET mag == Mag(end)
        unit == Pow10(mag)
        digit1 == (end \div unit) % 10
        digit2 == (end \div Pow10(mag - 1)) % 10
        max0 == IF digit2 >= 5 THEN 4 * (digit1 + 1) * unit
                ELSE (4 * digit1 + 2) * unit
        num0 == max0 \div (2 * unit)
        max1 == IF num0 > NumBoundsHi /\ digit2 < 5 THEN max0 + 2 * unit ELSE max0
        num1 == IF num0 > NumBoundsHi THEN (num0 + 1) \div 2
                ELSE IF num0 < NumBoundsLo THEN num0 * 2
                ELSE num0
    IN  [k \in 1..num1 |-> (k * max1) \div num1]

(* ------------------------------- actions ------------------------------- *)
Init ==
    /\ alive = FALSE
    /\ self = [drawdown_stab |-> 0, drawdown_edge |-> 0, depth_pitlake |-> 0,
               recharge |-> 0, cond_h |-> 0, anisotropy |-> 0, radius_eff |-> 0]
    /\ dict = {}
    /\ cache = [n \in CachedNames |-> 0]
    /\ last = NoCall
    /\ exc = "none"
    /\ ret = 0
    /\ warned = FALSE
    /\ solves = 0
    /\ writes = 0
    /\ nice_end = 0
    /\ nice_pts = <<>>

\* no call is under way: the caller has taken the last call's result
Idle == last = NoCall

\* the state a query leaves behind
Commit(m, op, arg) ==
    /\ dict' = m.dict
    /\ cache' = m.cache
    /\ exc' = m.exc
    /\ ret' = m.ret
    /\ warned' = m.warned
    /\ solves' = m.solves
    /\ last' = [op |-> op, arg |-> arg, kw |-> <<>>]
    /\ UNCHANGED <<alive, self, writes, nice_end, nice_pts>>

\* the value __init__ binds to a parameter: the keyword's, or the default
Arg(kw, name, default) == IF name \in DOMAIN kw THEN kw[name] ELSE default

\* PitFlow(**kw): __init__ stores its arguments and validates nothing
ConstructPitFlow ==
    /\ Idle
    /\ ~alive
    /\ \E kw \in PitFlowCalls :
         /\ last' = [op |-> "PitFlow", arg |-> 0, kw |-> kw]
         /\ IF ~Binds(PitFlowParams, PitFlowRequired, DOMAIN kw)
            THEN /\ exc' = "TypeError"
                 /\ UNCHANGED <<alive, self, dict>>
            ELSE /\ self' = [drawdown_stab |-> kw.drawdown_stab,
                             drawdown_edge |-> Arg(kw, "drawdown_edge", 0),
                             depth_pitlake |-> Arg(kw, "depth_pitlake", 0),
                             recharge |-> kw.recharge,
                             cond_h |-> kw.cond_h,
                             anisotropy |-> Arg(kw, "anisotropy", 1),
                             radius_eff |-> 0]
                 /\ dict' = CtorAttrs
                 /\ alive' = TRUE
                 /\ exc' = "none"
    /\ ret' = 0
    /\ warned' = FALSE
    /\ UNCHANGED <<cache, solves, writes, nice_end, nice_pts>>

\* PitFlowCommonUnits(**kw): stores the field values, converts the units and
\* calls super().__init__ with the keywords SuperCallKw. That call names
\* radius_eff, which PitFlow.__init__ does not declare, and leaves out area and
\* precipitation, so it never binds: the constructor raises TypeError and hands
\* back no object. (The guard is that failure; nothing follows a bound call.)
ConstructCommonUnits ==
    /\ Idle
    /\ ~alive
    /\ \E kw \in CommonUnitsCalls :
         /\ \/ ~Binds(CommonUnitsParams, CommonUnitsRequired, DOMAIN kw)
            \/ ~Binds(PitFlowParams, PitFlowRequired, SuperCallKw)
         /\ last' = [op |-> "PitFlowCommonUnits", arg |-> 0, kw |-> kw]
    /\ exc' = "TypeError"
    /\ ret' = 0
    /\ warned' = FALSE
    /\ UNCHANGED <<alive, self, dict, cache, solves, writes, nice_end, nice_pts>>

\* obj.name = v, after construction
SetAttr ==
    /\ Idle
    /\ alive
    /\ writes < MaxWrites
    /\ \E name \in WritableNames :
         \E v \in Writable(name) :
            /\ self' = [self EXCEPT ![name] = v]
            /\ dict' = dict \cup {name}
            /\ last' = [op |-> "setattr", arg |-> v, kw |-> [n \in {name} |-> v]]
    /\ writes' = writes + 1
    /\ exc' = "none"
    /\ ret' = 0
    /\ warned' = FALSE
    /\ UNCHANGED <<alive, cache, solves, nice_end, nice_pts>>

QueryRadiusInfl ==
    /\ Idle
    /\ alive
    /\ \E s \in RadiusInflSolves(Enter) :
         Commit(RadiusInfl(Enter, s), "radius_infl", 0)

QueryRadiusInflFromEdge ==
    /\ Idle
    /\ alive
    /\ \E s \in RadiusInflSolves(Enter) :
         Commit(RadiusInflFromEdge(Enter, s), "radius_infl_from_edge", 0)

CallGetDrawdownAtR ==
    /\ Idle
    /\ alive
    /\ \E r \in WallDistances :
         \E s \in RadiusInflSolves(Enter) :
            Commit(GetDrawdownAtR(Enter, r, s), "get_drawdown_at_r", r)

CallGetRAtDrawdown ==
    /\ Idle
    /\ alive
    /\ \E d \in ThresholdValues :
         \E s \in RadiusInflSolves(Enter) :
            \E t \in ThresholdSolves(GetDrawdownAtR(Enter, RAtDrawdownX0, s), d) :
               Commit(GetRAtDrawdown(Enter, d, s, t), "get_r_at_drawdown", d)

QueryRadiusAt1m ==
    /\ Idle
    /\ alive
    /\ \E s \in RadiusInflSolves(Enter) :
         \E t \in ThresholdSolves(GetDrawdownAtR(Enter, RAtDrawdownX0, s), 1) :
            Commit(RadiusAt1m(Enter, s, t), "radius_at_1m", 0)

QueryInflowZone1 ==
    /\ Idle
    /\ alive
    /\ \E s \in RadiusInflSolves(Enter) :
         Commit(InflowZone1(Enter, s), "inflow_zone1", 0)

QueryInflowZone2 ==
    /\ Idle
    /\ alive
    /\ Commit(InflowZone2(Enter), "inflow_zone2", 0)

QueryInflowZonesBoth ==
    /\ Idle
    /\ alive
    /\ \E s \in RadiusInflSolves(Enter) :
         Commit(InflowZonesBoth(Enter, s), "inflow_zones_both", 0)

CallReport ==
    /\ Idle
    /\ alive
    /\ \E s \in RadiusInflSolves(Enter) :
         \E t \in ThresholdSolves(GetDrawdownAtR(Enter, RAtDrawdownX0, s), 1) :
            Commit(Report(Enter, s, t), "report", 0)

\* the caller takes the result (or the exception) of the call and goes on
Resume ==
    /\ ~Idle
    /\ last' = NoCall
    /\ exc' = "none"
    /\ ret' = 0
    /\ warned' = FALSE
    /\ UNCHANGED <<alive, self, dict, cache, solves, writes, nice_end, nice_pts>>

\* get_nice_intervals(end), a module-level function
CallGetNiceIntervals ==
    /\ \E end \in 10..MaxEnd :
         /\ nice_end' = end
         /\ nice_pts' = GetNiceIntervals(end)
    /\ UNCHANGED objvars

Next ==
    \/ ConstructPitFlow
    \/ ConstructCommonUnits
    \/ SetAttr
    \/ QueryRadiusInfl
    \/ QueryRadiusInflFromEdge
    \/ CallGetDrawdownAtR
    \/ CallGetRAtDrawdown
    \/ QueryRadiusAt1m
    \/ QueryInflowZone1
    \/ QueryInflowZone2
    \/ QueryInflowZonesBoth
    \/ CallReport
    \/ Resume

Spec == Init /\ [][Next]_vars

NextNice == CallGetNiceIntervals

SpecNice == Init /\ [][NextNice]_vars

(* ------------------------------- claims -------------------------------- *)
QueryOps ==
    {"radius_infl", "radius_infl_from_edge", "get_drawdown_at_r", "get_r_at_drawdown",
     "radius_at_1m", "inflow_zone1", "inflow_zone2", "inflow_zones_both", "report"}

Has(kw, name) == name \in DOMAIN kw

\* keyword arguments that break a physical-domain constraint
InvalidArgs(kw) ==
    \/ Has(kw, "radius_eff") /\ kw["radius_eff"] <= 0
    \/ Has(kw, "cond_h") /\ kw["cond_h"] <= 0
    \/ Has(kw, "cond_h_md") /\ kw["cond_h_md"] <= 0
    \/ Has(kw, "recharge") /\ kw["recharge"] < 0
    \/ Has(kw, "recharge_mm_yr") /\ kw["recharge_mm_yr"] < 0
    \/ Has(kw, "area") /\ kw["area"] <= 0
    \/ Has(kw, "anisotropy") /\ kw["anisotropy"] <= 0

\* the object's parameters meet the physical-domain constraints
ValidParams ==
    /\ self.cond_h > 0
    /\ self.recharge >= 0
    /\ self.anisotropy > 0
    /\ "radius_eff" \in dict => self.radius_eff > 0

\* C1: a constructor call with radius_eff <= 0, cond_h <= 0, recharge < 0 or
\* anisotropy <= 0 fails with InvalidInput and leaves no object behind.
C1_InvalidInputRejected ==
    (last.op \in {"PitFlow", "PitFlowCommonUnits"} /\ InvalidArgs(last.kw))
        => (exc = "InvalidInput" /\ ~alive)

\* C2: PitFlow(drawdown_stab, cond_h, radius_eff, recharge) succeeds and sets
\* radius_eff, and no query on a constructed object fails for a missing attribute.
C2_TestpitConstructs ==
    /\ (last.op = "PitFlow" /\ last.kw = Testpit)
           => (exc = "none" /\ alive /\ "radius_eff" \in dict)
    /\ (alive /\ last.op \in QueryOps) => exc # "AttributeError"

\* C3: the field-unit constructor, given valid inputs, constructs an object (on
\* which radius_infl can then be compared with the SI constructor's).
C3_CommonUnitsConstructs ==
    (last.op = "PitFlowCommonUnits" /\ ~InvalidArgs(last.kw))
        => (exc = "none" /\ alive)

\* C4 as stated: for valid parameters and a radius of influence that solves the
\* governing equation beyond the pit, get_drawdown_at_r(r) is drawdown_stab for
\* every r <= 0 and 0 for every r >= radius_infl_from_edge.
C4_BoundaryInclusive ==
    (/\ last.op = "get_drawdown_at_r"
     /\ exc = "none"
     /\ ValidParams
     /\ "radius_infl" \in dict
     /\ cache["radius_infl"] > self.radius_eff
     /\ cache["radius_infl"] \in FsolveRoots(H0OnGrid))
        => /\ last.arg <= 0 => ret = ValueScale * self.drawdown_stab
           /\ last.arg >= cache["radius_infl_from_edge"] => ret = 0

\* C4 as amended: get_drawdown_at_r(r) is drawdown_stab for every r < 0 and 0 for
\* every r >= 0 beyond radius_infl_from_edge; at the wall, r = 0 within the
\* radius of influence, it is drawdown_stab - |drawdown_edge|.
C4_BoundaryStrict ==
    (last.op = "get_drawdown_at_r" /\ exc = "none")
        => /\ last.arg < 0 => ret = ValueScale * self.drawdown_stab
           /\ (last.arg >= 0 /\ last.arg > cache["radius_infl_from_edge"]) => ret = 0
           /\ (last.arg = 0 /\ cache["radius_infl_from_edge"] >= 0)
                  => ret = ValueScale * (self.drawdown_stab - Abs(self.drawdown_edge))

\* C4's case: a non-zero drawdown_edge, a solved radius of influence beyond the
\* pit, and the drawdown asked for at the wall
C4_Witness ==
    /\ last.op = "get_drawdown_at_r"
    /\ exc = "none"
    /\ last.arg = 0
    /\ ValidParams
    /\ self.drawdown_edge # 0
    /\ cache["radius_infl"] \in FsolveRoots(H0OnGrid)
    /\ cache["radius_infl_from_edge"] > 0
    /\ ret = ValueScale * (self.drawdown_stab - self.drawdown_edge)

\* the drawdown the object reports at r once its radius of influence is cached
DrawdownAt(r) ==
    GetDrawdownAtR(Enter, r, [x |-> 0, converged |-> TRUE, raised |-> FALSE])

\* C5: for valid parameters the drawdown profile never rises with the distance.
C5_Monotone ==
    (ValidParams /\ "radius_infl_from_edge" \in dict)
        => \A r1, r2 \in WallDistances :
               r1 < r2 => FGe(DrawdownAt(r1).ret, DrawdownAt(r2).ret)

\* C6: a solve that did not converge surfaces as RootFindingError.
C6_NonConvergenceRaises ==
    warned => exc = "RootFindingError"

\* C7: a solved radius of influence lies beyond the pit: radius_infl > radius_eff > 0.
C7_RadiusInflBeyondPit ==
    (ValidParams /\ last.op = "radius_infl" /\ exc = "none")
        => (ret > self.radius_eff /\ self.radius_eff > 0)

\* C8: the radius-of-influence solve runs once, when radius_infl is first needed;
\* from then on the stored value is what radius_infl gives.
C8_SolveOnce ==
    /\ solves = IF "radius_infl" \in dict THEN 1 ELSE 0
    /\ (last.op = "radius_infl" /\ exc = "none") => ret = cache["radius_infl"]

\* C8's case: several queries that need the radius have run on one object
C8_Witness ==
    /\ solves = 1
    /\ {"radius_infl_from_edge", "radius_at_1m", "inflow_zone1"} \subseteq dict
    /\ last.op = "get_drawdown_at_r"
    /\ last.arg = 1
    /\ exc = "none"

\* the radii fsolve can hand back for the object's current parameters
FreshRadii == {s.x : s \in Fsolve(H0OnGrid)}

\* C9: every cached value is the one the current parameters give.
C9_CachesFresh ==
    /\ "radius_infl" \in dict =>
           (self.cond_h # 0 => cache["radius_infl"] \in FreshRadii)
    /\ "radius_infl_from_edge" \in dict =>
           cache["radius_infl_from_edge"] = cache["radius_infl"] - self.radius_eff
    /\ "inflow_zone1" \in dict =>
           cache["inflow_zone1"] = InflowZone1Value(cache["radius_infl"])
    /\ "inflow_zone2" \in dict => cache["inflow_zone2"] = InflowZone2Value

\* C10: get_nice_intervals(end) gives between 4 and 8 evenly spaced, increasing
\* points, the first above 0 and the last not below end.
C10_NiceIntervals ==
    nice_end >= 10 =>
        LET n == Len(nice_pts)
        IN  /\ n >= NumBoundsLo
            /\ n <= NumBoundsHi
            /\ nice_pts[1] > 0
            /\ \A k \in 1..(n - 1) : nice_pts[k + 1] - nice_pts[k] = nice_pts[1]
            /\ nice_pts[n] >= 4 * nice_end

====
